---- MODULE Spec2Model ----
(***************************************************************************)
(* WakeOnWrite<T> (src/src/wake_on.rs): a value wrapper that wakes the     *)
(* registered Waker whenever the wrapped value is borrowed through &mut.   *)
(*                                                                         *)
(* Three specifications share the cell's operators:                        *)
(*   Spec   an arbitrary caller driving one cell through its API           *)
(*          (new, deref, deref_mut, set_waker, take_waker, waker);         *)
(*   SpecD  the test wow_wakes_target_on_mut_access: the futures           *)
(*          data_checker and data_incrementor joined over one              *)
(*          Mutex<WakeOnWrite<u8>>; FairSpecD adds the executor's fairness;*)
(*   SpecL  the life of a cell: the caller of Spec, who may also produce   *)
(*          cells (new, Default, Clone) and drop the cell.                 *)
(***************************************************************************)
EXTENDS Integers, FiniteSets, Sequences, TLC

\* Largest payload value a caller of Spec stores in the cell.
MaxVal == 10
\* Number of mutable accesses a behaviour of Spec performs at most.
MaxAcc == 10

\* Number of mutable accesses a behaviour of SpecL performs at most.
LifeAcc == 2

\* Option::None of the waker field.
None == "None"
\* The Wakers a caller may register.
Handles == {"H1", "H2"}
\* Payload values of Spec.
Values == 0..MaxVal
\* u8 arithmetic of the test's payload.
U8 == 256

VARIABLES
    wow,        \* the cell: [inner, waker]
    wakes,      \* wakes[h]: how often Waker h has been woken
    view,       \* TRUE while the &mut T returned by deref_mut is alive
    op,         \* the last call on the cell: name, handle argument, handle result, value
    prev,       \* the call before it
    nmut,       \* nmut[w]: mutable accesses obtained while w (a handle or None) was registered
    registered, \* an install happened and no remove since the most recent install
    written,    \* the value most recently stored in the cell (by new or through a view)
    pcA,        \* SpecD: position of data_checker
    pcB,        \* SpecD: position of data_incrementor
    lock,       \* SpecD: holder of the Mutex: "free", "A" or "B"
    i,          \* SpecD: iterations of data_incrementor's loop completed
    woken,      \* SpecD: data_checker's Waker was woken and it has not been polled since
    polls,      \* SpecD: polls of data_checker so far
    made,       \* SpecL: a second cell, the one most recently produced by new, Default
                \* or Clone; a Default one to begin with
    alive       \* SpecL: the cell wow has not been dropped

cellVars == <<wow, wakes, view, nmut, registered, written>>
histVars == <<op, prev>>
taskVars == <<pcA, pcB, lock, i, woken, polls>>
lifeVars == <<made, alive>>
vars == <<wow, wakes, view, op, prev, nmut, registered, written,
          pcA, pcB, lock, i, woken, polls, made, alive>>

-----------------------------------------------------------------------------
(* The cell's operations, as functions of the cell value.                  *)

\* WakeOnWrite::new: the value wrapped, no waker.
new(value) == [inner |-> value, waker |-> None]

\* Waker::wake_by_ref on handle h: one more notification of h.
wake_by_ref(wk, h) == [wk EXCEPT ![h] = @ + 1]

\* Every operation below takes the cell w and the notification counts wk and
\* yields the cell and the counts after the call, and what the call returns.

\* set_waker as it would be if it woke the waker it evicts.
set_waker_waking(w, wk, h) ==
    [wow   |-> [w EXCEPT !.waker = h],
     wakes |-> IF w.waker # None THEN wake_by_ref(wk, w.waker) ELSE wk,
     ret   |-> w.waker]

\* set_waker as it would be with Option::get_or_insert in place of
\* Option::replace: a registered waker is kept.
set_waker_insert(w, wk, h) ==
    [wow   |-> IF w.waker = None THEN [w EXCEPT !.waker = h] ELSE w,
     wakes |-> wk,
     ret   |-> w.waker]

\* WakeOnWrite::set_waker: Option::replace on the waker field.
set_waker(w, wk, h) ==
    [wow |-> [w EXCEPT !.waker = h], wakes |-> wk, ret |-> w.waker]

\* take_waker as it would be with Option::clone in place of Option::take.
take_waker_clone(w, wk) == [wow |-> w, wakes |-> wk, ret |-> w.waker]

\* WakeOnWrite::take_waker: Option::take on the waker field.
take_waker(w, wk) ==
    [wow |-> [w EXCEPT !.waker = None], wakes |-> wk, ret |-> w.waker]

\* WakeOnWrite::waker: Option::as_ref on the waker field.
waker(w, wk) == [wow |-> w, wakes |-> wk, ret |-> w.waker]

\* deref as it would be if reads woke the waker as mutable accesses do.
deref_waking(w, wk) ==
    [wow   |-> w,
     wakes |-> IF w.waker # None THEN [wk EXCEPT ![w.waker] = @ + 1] ELSE wk,
     ret   |-> w.inner]

\* Deref::deref: a shared reference to the payload.
deref(w, wk) == [wow |-> w, wakes |-> wk, ret |-> w.inner]

\* deref_mut as it would be without the wake.
deref_mut_silent(w, wk) == [wow |-> w, wakes |-> wk, ret |-> w.inner]

\* deref_mut as it would be if it woke every handle rather than the registered one.
deref_mut_broadcast(w, wk) ==
    [wow |-> w, wakes |-> [h \in Handles |-> wk[h] + 1], ret |-> w.inner]

\* deref_mut as it would be with Option::take in place of Option::as_ref.
deref_mut_consuming(w, wk) ==
    [wow   |-> [w EXCEPT !.waker = None],
     wakes |-> IF w.waker # None THEN wake_by_ref(wk, w.waker) ELSE wk,
     ret   |-> w.inner]

\* DerefMut::deref_mut: wake the registered waker, if any, by reference; the
\* cell itself is left as it is and &mut inner is handed out.
deref_mut(w, wk) ==
    [wow   |-> w,
     wakes |-> IF w.waker # None THEN wake_by_ref(wk, w.waker) ELSE wk,
     ret   |-> w.inner]

\* A store as it would be if deref_mut handed out a copy of the payload.
store_copy(w, v) == w

\* A store through the &mut T that deref_mut returned.
store(w, v) == [w EXCEPT !.inner = v]

\* #[derive(Default)]: T::default() (0 for the integer payloads modelled) and
\* Option::default(), which is None.
default == [inner |-> 0, waker |-> None]

\* #[derive(Clone)]: each field is cloned, the waker field included; a cloned
\* Waker wakes the same task, so the copy holds the same handle.  ret is the
\* cell produced.
clone(w, wk) ==
    [wow |-> w, wakes |-> wk, ret |-> [inner |-> w.inner, waker |-> w.waker]]

\* The drop glue of the struct as it would be if dropping the cell woke the
\* waker it still holds.
drop_waking(w, wk) ==
    [wakes |-> IF w.waker # None THEN wake_by_ref(wk, w.waker) ELSE wk]

\* The drop glue of the struct (it has no Drop impl): the fields are dropped,
\* and dropping a Waker does not wake it.
drop(w, wk) == [wakes |-> wk]

-----------------------------------------------------------------------------
(* History of calls.                                                       *)

Call(name, harg, hret, val) ==
    [name |-> name, harg |-> harg, hret |-> hret, val |-> val]

NoCall == Call("none", None, None, 0)

Total(n) == n[None] + n["H1"] + n["H2"]

Log(c) == op' = c /\ prev' = op

-----------------------------------------------------------------------------
(* Spec: one cell driven through its API.                                  *)

Init ==
    /\ \E v \in Values :
         /\ wow = new(v)
         /\ written = v
         /\ op = Call("new", None, None, v)
    /\ prev = NoCall
    /\ wakes = [h \in Handles |-> 0]
    /\ view = FALSE
    /\ nmut = [w \in Handles \cup {None} |-> 0]
    /\ registered = FALSE
    /\ pcA = "start" /\ pcB = "await_lock" /\ lock = "free"
    /\ i = 0 /\ woken = FALSE /\ polls = 0
    /\ made = default /\ alive = TRUE

\* *cell
Deref ==
    /\ ~view
    /\ LET r == deref(wow, wakes) IN
         /\ wow' = r.wow
         /\ wakes' = r.wakes
         /\ Log(Call("deref", None, None, r.ret))
    /\ UNCHANGED <<view, nmut, registered, written, taskVars, lifeVars>>

\* &mut *cell: the view is obtained (and the waker woken).
DerefMut ==
    /\ ~view
    /\ Total(nmut) < MaxAcc
    /\ LET r == deref_mut(wow, wakes) IN
         /\ wow' = r.wow
         /\ wakes' = r.wakes
    /\ view' = TRUE
    /\ nmut' = [nmut EXCEPT ![wow.waker] = @ + 1]
    /\ Log(Call("deref_mut", None, None, 0))
    /\ UNCHANGED <<registered, written, taskVars, lifeVars>>

\* The caller stores v through the view and lets the view go.
ViewWrite ==
    /\ view
    /\ \E v \in Values :
         /\ wow' = store(wow, v)
         /\ written' = v
         /\ Log(Call("write", None, None, v))
    /\ view' = FALSE
    /\ UNCHANGED <<wakes, nmut, registered, taskVars, lifeVars>>

\* The caller lets the view go without storing anything.
ViewDrop ==
    /\ view
    /\ view' = FALSE
    /\ Log(Call("drop_view", None, None, 0))
    /\ UNCHANGED <<wow, wakes, nmut, registered, written, taskVars, lifeVars>>

\* WakeOnWrite::set_waker(&mut cell, h)
SetWaker ==
    /\ ~view
    /\ \E h \in Handles :
         LET r == set_waker(wow, wakes, h) IN
           /\ wow' = r.wow
           /\ wakes' = r.wakes
           /\ Log(Call("set_waker", h, r.ret, 0))
    /\ registered' = TRUE
    /\ UNCHANGED <<view, nmut, written, taskVars, lifeVars>>

\* WakeOnWrite::take_waker(&mut cell)
TakeWaker ==
    /\ ~view
    /\ LET r == take_waker(wow, wakes) IN
         /\ wow' = r.wow
         /\ wakes' = r.wakes
         /\ Log(Call("take_waker", None, r.ret, 0))
    /\ registered' = FALSE
    /\ UNCHANGED <<view, nmut, written, taskVars, lifeVars>>

\* WakeOnWrite::waker(&cell)
PeekWaker ==
    /\ ~view
    /\ LET r == waker(wow, wakes) IN
         /\ wow' = r.wow
         /\ wakes' = r.wakes
         /\ Log(Call("waker", None, r.ret, 0))
    /\ UNCHANGED <<view, nmut, registered, written, taskVars, lifeVars>>

Next ==
    \/ Deref
    \/ DerefMut
    \/ ViewWrite
    \/ ViewDrop
    \/ SetWaker
    \/ TakeWaker
    \/ PeekWaker

Spec == Init /\ [][Next]_vars

-----------------------------------------------------------------------------
(* SpecL: the life of a cell.  The caller of Spec may also produce cells   *)
(* (made is the one produced last) and drop the cell, which ends its use.  *)

\* The calls of Spec that register and notify handles, as long as the cell
\* has not been dropped; at most LifeAcc mutable accesses.
Use ==
    /\ alive
    /\ \/ SetWaker
       \/ TakeWaker
       \/ (Total(nmut) < LifeAcc /\ DerefMut)
       \/ ViewDrop

\* WakeOnWrite::new(v)
New ==
    /\ \E v \in Values :
         /\ made' = new(v)
         /\ Log(Call("new", None, None, v))
    /\ UNCHANGED <<cellVars, taskVars, alive>>

\* WakeOnWrite::default()
Default ==
    /\ made' = default
    /\ Log(Call("default", None, None, default.inner))
    /\ UNCHANGED <<cellVars, taskVars, alive>>

\* cell.clone()
Clone ==
    /\ alive
    /\ ~view
    /\ LET r == clone(wow, wakes) IN
         /\ wow' = r.wow
         /\ wakes' = r.wakes
         /\ made' = r.ret
         /\ Log(Call("clone", None, r.ret.waker, r.ret.inner))
    /\ UNCHANGED <<view, nmut, registered, written, taskVars, alive>>

\* The cell goes out of scope.
Drop ==
    /\ alive
    /\ ~view
    /\ wakes' = drop(wow, wakes).wakes
    /\ alive' = FALSE
    /\ Log(Call("drop", None, None, 0))
    /\ UNCHANGED <<wow, view, nmut, registered, written, taskVars, made>>

NextL ==
    \/ Use
    \/ New
    \/ Default
    \/ Clone
    \/ Drop

SpecL == Init /\ [][NextL]_vars

-----------------------------------------------------------------------------
(* SpecD: the test wow_wakes_target_on_mut_access.                         *)
(*                                                                         *)
(* data_checker (task A) and data_incrementor (task B) are joined, so they *)
(* are polled by one task, one at a time: a poll of one future runs until  *)
(* that future returns Pending or Ready at one of its suspension points    *)
(* (the end of the poll_fn closure for A, `lock().await` for B) before the *)
(* other future is polled.  Which of the two is polled next is left open.  *)

\* The value data_checker waits for.
Target == 10
\* The number of iterations of data_incrementor's loop.
Iterations == 10
\* ctx.waker().clone(): the Waker of the task polling data_checker.
ctx_waker == "H1"

InitD ==
    /\ wow = new(0)
    /\ written = 0
    /\ op = Call("new", None, None, 0)
    /\ prev = NoCall
    /\ wakes = [h \in Handles |-> 0]
    /\ view = FALSE
    /\ nmut = [w \in Handles \cup {None} |-> 0]
    /\ registered = FALSE
    /\ pcA = "start" /\ pcB = "await_lock" /\ lock = "free"
    /\ i = 0 /\ woken = FALSE /\ polls = 0
    /\ made = default /\ alive = TRUE

\* The counts wk record a notification of ctx_waker that wakes does not.
Notified(wk) == wk[ctx_waker] > wakes[ctx_waker]

\* data_checker is between polls.
IdleA == pcA \in {"start", "pending", "done"}
\* data_incrementor is between polls.
IdleB == pcB \in {"await_lock", "done"}

\* data_checker is polled (first poll, or re-poll after a wake) and polls
\* data_ref.lock(): the guard, or Poll::Pending when the Mutex is held.
A_poll ==
    /\ pcA = "start" \/ (pcA = "pending" /\ woken)
    /\ IdleB
    /\ woken' = FALSE
    /\ polls' = polls + 1
    /\ IF lock = "free"
         THEN lock' = "A" /\ pcA' = "locked"
         ELSE lock' = lock /\ pcA' = "pending"
    /\ UNCHANGED <<cellVars, histVars, pcB, i, lifeVars>>

\* match **lock: Ready on Target (the guard is dropped), else go on to set_waker.
A_match ==
    /\ pcA = "locked"
    /\ LET r == deref(wow, wakes) IN
         /\ wow' = r.wow
         /\ wakes' = r.wakes
         /\ woken' = (woken \/ Notified(r.wakes))
         /\ IF r.ret = Target
              THEN pcA' = "done" /\ lock' = "free"
              ELSE pcA' = "set_waker" /\ lock' = lock
    /\ UNCHANGED <<view, nmut, registered, written, histVars, pcB, i, polls, lifeVars>>

\* WakeOnWrite::set_waker(&mut lock, ctx.waker().clone()); Poll::Pending; the
\* guard is dropped at the end of the closure.
A_set_waker ==
    /\ pcA = "set_waker"
    /\ LET r == set_waker(wow, wakes, ctx_waker) IN
         /\ wow' = r.wow
         /\ wakes' = r.wakes
         /\ woken' = (woken \/ Notified(r.wakes))
    /\ registered' = TRUE
    /\ lock' = "free"
    /\ pcA' = "pending"
    /\ UNCHANGED <<view, nmut, written, histVars, pcB, i, polls, lifeVars>>

\* let mut lock = data_ref.lock().await
B_lock ==
    /\ pcB = "await_lock"
    /\ IdleA
    /\ lock = "free"
    /\ lock' = "B"
    /\ pcB' = "deref_mut"
    /\ UNCHANGED <<cellVars, histVars, pcA, i, woken, polls, lifeVars>>

\* **lock += 1, first half: deref_mut hands out &mut inner and wakes the waker.
B_deref_mut ==
    /\ pcB = "deref_mut"
    /\ LET r == deref_mut(wow, wakes) IN
         /\ wow' = r.wow
         /\ wakes' = r.wakes
         /\ woken' = (woken \/ Notified(r.wakes))
    /\ view' = TRUE
    /\ nmut' = [nmut EXCEPT ![wow.waker] = @ + 1]
    /\ pcB' = "add"
    /\ UNCHANGED <<registered, written, histVars, pcA, lock, i, polls, lifeVars>>

\* **lock += 1, second half: the u8 addition through the view.
B_add ==
    /\ pcB = "add"
    /\ wow' = store(wow, (wow.inner + 1) % U8)
    /\ written' = (wow.inner + 1) % U8
    /\ view' = FALSE
    /\ pcB' = "unlock"
    /\ UNCHANGED <<wakes, nmut, registered, histVars, pcA, lock, i, woken, polls, lifeVars>>

\* End of the loop body: the guard is dropped; next iteration or the end.
B_unlock ==
    /\ pcB = "unlock"
    /\ lock' = "free"
    /\ i' = i + 1
    /\ pcB' = IF i + 1 = Iterations THEN "done" ELSE "await_lock"
    /\ UNCHANGED <<cellVars, histVars, pcA, woken, polls, lifeVars>>

NextA == A_poll \/ A_match \/ A_set_waker
NextB == B_lock \/ B_deref_mut \/ B_add \/ B_unlock

NextD ==
    \/ A_poll
    \/ A_match
    \/ A_set_waker
    \/ B_lock
    \/ B_deref_mut
    \/ B_add
    \/ B_unlock

SpecD == InitD /\ [][NextD]_vars

\* The executor polls a woken task, and join polls each unfinished future.
FairSpecD == SpecD /\ WF_vars(NextA) /\ WF_vars(NextB)

-----------------------------------------------------------------------------
(* Properties.                                                             *)

\* A step in which deref_mut hands out the mutable view.
Obtains == ~view /\ view'
\* A step in which the caller lets the view go, having stored through it or not.
Releases == view /\ ~view'
\* No handle has been notified.
Silent == \A h \in Handles : wakes[h] = 0

\* C1: with a handle h registered, each deref_mut notifies h exactly once: the
\* count of h grows by exactly 1 when the view is obtained and by nothing when
\* the caller then stores through the view or lets it go unused; and a value
\* stored through the view is the payload, which is what a later read returns.
C1_MutAccessNotifiesOnce ==
    /\ [][(Obtains /\ wow.waker # None)
            => wakes'[wow.waker] = wakes[wow.waker] + 1]_vars
    /\ [][Releases => wakes' = wakes]_vars
    /\ [][(Releases /\ op'.name = "write") => wow'.inner = op'.val]_vars
    /\ [](wow.inner = written)
    /\ [](op.name = "deref" => op.val = written)

\* Scenario A: H1 registered, one mutable access storing 1, then a read: H1
\* was notified exactly once and the read yields 1.
C1_Witness ==
    /\ op.name = "deref" /\ op.val = 1
    /\ prev.name = "write" /\ prev.val = 1
    /\ wow.waker = "H1"
    /\ Total(nmut) = 1
    /\ wakes["H1"] = 1

\* C2: in the test, under fair polling of both futures, data_checker
\* eventually completes, and it is never left pending forever with the value
\* at Target.
C2_CheckerCompletes ==
    /\ <>(pcA = "done")
    /\ []<>~(pcA = "pending" /\ wow.inner = Target)

\* data_checker suspended with its waker installed, was woken by deref_mut,
\* was polled again and completed after the last increment.
C2_Witness ==
    /\ pcA = "done"
    /\ pcB = "done"
    /\ polls >= 2
    /\ wakes[ctx_waker] >= 1
    /\ wow.inner = Target

\* C3: a notification goes to the handle registered at the moment of the
\* mutable access and to no other: a handle's count changes only in a step
\* that obtains the view while that handle is the registered one, and then by
\* one.  So a handle evicted by set_waker or removed by take_waker gets no
\* later notification, and a handle installed after an access gets nothing
\* for that access.
C3_NotifiesRegisteredHandle ==
    /\ [][\A h \in Handles :
            wakes'[h] # wakes[h]
              => (Obtains /\ wow.waker = h /\ wakes'[h] = wakes[h] + 1)]_vars
    /\ [][\A h \in Handles :
            (Obtains /\ wow.waker = h) => wakes'[h] = wakes[h] + 1]_vars

\* Scenario C: set_waker(H1), set_waker(H2) returning H1, one mutable access:
\* H2 has the notification, H1 has none.
C3_Witness ==
    /\ op.name = "deref_mut"
    /\ prev.name = "set_waker" /\ prev.harg = "H2" /\ prev.hret = "H1"
    /\ wakes["H2"] = 1
    /\ wakes["H1"] = 0

\* C4: with no handle registered, obtaining the mutable view notifies nothing
\* and the store through it is applied: as long as every mutable access so far
\* was made with no handle registered, no handle has been notified.
C4_NoHandleNoNotify ==
    /\ [][(Obtains /\ wow.waker = None) => wakes' = wakes]_vars
    /\ [][(Releases /\ op'.name = "write" /\ wow.waker = None)
            => wow'.inner = op'.val]_vars
    /\ [](nmut[None] = Total(nmut) => Silent)

\* Scenario B: MaxAcc mutable accesses with no handle registered, the value
\* now MaxVal and read back, and nothing notified.
C4_Witness ==
    /\ op.name = "deref" /\ op.val = MaxVal
    /\ prev.name = "write"
    /\ wow.waker = None
    /\ nmut[None] = MaxAcc
    /\ Silent

\* C5: a read returns the payload and changes neither the cell (payload,
\* registered handle) nor any notification count; before any mutable access,
\* every read returns the value the cell was created with.
C5_ReadTransparent ==
    /\ [][op'.name = "deref"
            => (op'.val = wow.inner /\ wow' = wow /\ wakes' = wakes)]_vars
    /\ []((op.name = "deref" /\ Total(nmut) = 0) => op.val = written)

\* Two reads in a row of a cell holding 2 with H1 registered: both yield 2 and
\* nothing was notified.
C5_Witness ==
    /\ op.name = "deref" /\ op.val = 2
    /\ prev.name = "deref" /\ prev.val = 2
    /\ wow.waker = "H1"
    /\ Total(nmut) = 0
    /\ Silent

\* C6: set_waker(h) returns the handle registered before the call (None on a
\* cell without one, h1 right after set_waker(h1)) and leaves h registered; a
\* waker() right after it returns h; the waker field holds one handle or None.
C6_InstallReturnsPrevious ==
    /\ [][op'.name = "set_waker"
            => (op'.hret = wow.waker /\ wow'.waker = op'.harg)]_vars
    /\ [][(op.name = "set_waker" /\ op'.name = "set_waker")
            => op'.hret = op.harg]_vars
    /\ [][(op.name = "set_waker" /\ op'.name = "waker")
            => op'.hret = op.harg]_vars
    /\ [](wow.waker \in Handles \cup {None})

\* set_waker(H1), set_waker(H2) returning H1, then waker() returning H2.
C6_Witness ==
    /\ op.name = "waker" /\ op.hret = "H2"
    /\ prev.name = "set_waker" /\ prev.harg = "H2" /\ prev.hret = "H1"

\* C7: take_waker returns the registered handle (h right after set_waker(h))
\* and leaves none registered; from then until the next set_waker, waker()
\* returns None and obtaining the mutable view notifies nothing.
C7_RemoveClears ==
    /\ [][op'.name = "take_waker"
            => (op'.hret = wow.waker /\ wow'.waker = None)]_vars
    /\ [][(op.name = "set_waker" /\ op'.name = "take_waker")
            => op'.hret = op.harg]_vars
    /\ [](~registered => wow.waker = None)
    /\ [][(~registered /\ op'.name = "waker") => op'.hret = None]_vars
    /\ [][(~registered /\ Obtains) => wakes' = wakes]_vars

\* take_waker returned H1, then a mutable access: nothing was ever notified.
C7_Witness ==
    /\ op.name = "deref_mut"
    /\ prev.name = "take_waker" /\ prev.hret = "H1"
    /\ wow.waker = None
    /\ nmut[None] = 1
    /\ Silent

\* C8: take_waker on a cell without a handle returns None and changes neither
\* the cell nor any notification count; a take_waker right after a take_waker
\* returns None and changes nothing.
C8_RemoveIdempotent ==
    /\ [][(op'.name = "take_waker" /\ wow.waker = None)
            => (op'.hret = None /\ wow' = wow /\ wakes' = wakes)]_vars
    /\ [][(op.name = "take_waker" /\ op'.name = "take_waker")
            => (op'.hret = None /\ wow' = wow /\ wakes' = wakes)]_vars

\* take_waker returning H1, then take_waker returning None.
C8_Witness ==
    /\ op.name = "take_waker" /\ op.hret = None
    /\ prev.name = "take_waker" /\ prev.hret = "H1"
    /\ wow.waker = None

\* C9: obtaining the mutable view leaves the registered handle registered,
\* and every handle has been notified exactly as often as the view was
\* obtained while it was the registered one.
C9_NotifyNonConsuming ==
    /\ [][Obtains => wow'.waker = wow.waker]_vars
    /\ [](\A h \in Handles : wakes[h] = nmut[h])

\* MaxAcc mutable accesses with H1 registered throughout: MaxAcc notifications
\* of H1, and waker() still returns H1.
C9_Witness ==
    /\ op.name = "waker" /\ op.hret = "H1"
    /\ nmut["H1"] = MaxAcc
    /\ wakes["H1"] = MaxAcc

C11_CreatedEmpty ==
    /\ waker(made, wakes).ret = None
    /\ (op.name = "new" /\ prev.name # "none") => deref(made, wakes).ret = op.val
    /\ (prev.name = "none")
         => (waker(wow, wakes).ret = None /\ deref(wow, wakes).ret = op.val)

\* C12: dropping the cell notifies nothing: no notification count changes in
\* the step that drops it, whether or not a handle is still registered.
C12_DropDoesNotNotify ==
    [][(alive /\ ~alive') => wakes' = wakes]_vars

\* The cell was dropped with H1 still registered and notified once before:
\* H1's count is still 1.
C12_Witness ==
    /\ ~alive
    /\ op.name = "drop"
    /\ wow.waker = "H1"
    /\ nmut["H1"] = 1
    /\ wakes["H1"] = 1

\* C13: data_checker is not busy-polled: it is polled at most once more than
\* data_incrementor has obtained mutable access, so at most Iterations + 1
\* times; a poll is the first one or answers a wake, and a wake comes only
\* from a step that obtains the mutable view.
C13_NoBusyPolling ==
    /\ [](polls <= 1 + Total(nmut))
    /\ [](polls <= Iterations + 1)
    /\ [][polls' # polls => (pcA = "start" \/ woken)]_vars
    /\ [][(woken' /\ ~woken) => Obtains]_vars

\* data_checker polled before the first and after every increment: Iterations + 1
\* polls, the last one completing.
C13_Witness ==
    /\ pcA = "done"
    /\ polls = Iterations + 1
    /\ Total(nmut) = Iterations

\* C14: no wake-up is lost: whenever data_checker is suspended with no wake
\* pending and the Mutex free, its waker is the registered one, the value is
\* below Target and an increment is still to come; it is never suspended
\* with no wake pending and the value at Target.
C14_NoLostWakeup ==
    /\ (pcA = "pending" /\ ~woken /\ lock = "free")
         => (wow.waker = ctx_waker /\ wow.inner < Target /\ i < Iterations)
    /\ ~(pcA = "pending" /\ ~woken /\ wow.inner = Target)

\* data_checker suspended, no wake pending, before the last increment.
C14_Witness ==
    /\ pcA = "pending"
    /\ ~woken
    /\ lock = "free"
    /\ wow.waker = ctx_waker
    /\ i = Iterations - 1

\* C15: a notification is issued in the step that obtains the view, before
\* the store, so the payload is the same before and after that step; and
\* whenever data_checker holds the Mutex no view is alive and the value is
\* the number of mutable accesses made, all of them completed: a woken
\* data_checker reads the value stored by the access that woke it.
C15_NotifyBeforeWrite ==
    /\ [][wakes' # wakes => (Obtains /\ wow'.inner = wow.inner)]_vars
    /\ [](lock = "A" => (~view /\ wow.inner = Total(nmut) /\ wow.inner = i))
    /\ [](pcA = "done" => (wow.inner = Target /\ i = Iterations))

\* data_checker, woken by each of five accesses, holds the Mutex and is about
\* to read 5.
C15_Witness ==
    /\ pcA = "locked"
    /\ lock = "A"
    /\ wakes[ctx_waker] = 5
    /\ wow.inner = 5

\* C16: set_waker, take_waker and waker() leave the payload and every
\* notification count unchanged (set_waker wakes neither the evicted nor the
\* new handle), and waker() also leaves the waker field unchanged.
C16_HandleOpsSilent ==
    /\ [][op'.name \in {"set_waker", "take_waker", "waker"}
            => (wow'.inner = wow.inner /\ wakes' = wakes)]_vars
    /\ [][op'.name = "waker" => wow'.waker = wow.waker]_vars

\* H1, notified once, is evicted by set_waker(H2): H1's count is still 1,
\* H2's is 0 and the payload is the value stored before.
C16_Witness ==
    /\ op.name = "set_waker" /\ op.harg = "H2" /\ op.hret = "H1"
    /\ prev.name = "write" /\ prev.val = 3
    /\ wow.inner = 3
    /\ wakes["H1"] = 1
    /\ wakes["H2"] = 0

====
